---- MODULE Spec2Model ----
(***************************************************************************)
(* Model of trajectory_data_analysis/utils/nuplan.py: the four aggregation *)
(* routines over per-scenario databases (plot_trajectories,                *)
(* plot_class_proportion, plot_mean_speed_distribution and                 *)
(* plot_speed_distribution).  Each call is one action; the tables it       *)
(* builds before handing them to the plotting library are its output.      *)
(*                                                                         *)
(* Numbers.  Coordinates and map boundaries are kept in half units (the    *)
(* value 3 stands for 1.5), so that int(), which truncates toward zero,    *)
(* differs from floor.  Every float the code computes by division is a     *)
(* fraction <<num, den>> in lowest terms; NaN is <<0, 0>>.                 *)
(***************************************************************************)
EXTENDS Integers, Sequences, FiniteSets, TLC

VARIABLES disk, trajectory_files, last

vars == <<disk, trajectory_files, last>>

-----------------------------------------------------------------------------
(* Module-level tables of the source.                                      *)

categories ==
    <<"vehicle", "bicycle", "pedestrian", "traffic_cone", "barrier",
      "czone_sign", "generic_object">>

dynamic_category == <<"vehicle", "bicycle", "pedestrian", "generic_object">>

-----------------------------------------------------------------------------
(* Python and numpy primitives the routines rely on.                        *)

Range(s) == {s[i] : i \in DOMAIN s}

None == <<>>

NaN == <<0, 0>>

RECURSIVE Gcd(_, _)
Gcd(a, b) == IF b = 0 THEN a ELSE Gcd(b, a % b)

\* a / b on floats, b # 0: the quotient as a fraction in lowest terms.
Frac(a, b) == LET g == Gcd(a, b) IN <<a \div g, b \div g>>

\* numpy's float division: 0/0 is nan (a warning, no exception).
NpDivide(a, b) == IF b = 0 THEN NaN ELSE Frac(a, b)

\* int(h / 2) for a value h in half units: truncation toward zero.
PyInt(h) == IF h >= 0 THEN h \div 2 ELSE -((-h) \div 2)

\* floor(h / 2) for a value h in half units.
Floor(h) == h \div 2

\* np.sqrt on the sums of squares the model's velocities produce.
Sqrt(n) == CHOOSE r \in 0..n : r * r = n

\* s[-3:]
Last3(s) == SubSeq(s, IF Len(s) > 3 THEN Len(s) - 2 ELSE 1, Len(s))

\* trajectory_file[-3:] != ".db"
NotDb(trajectory_file) == Last3(trajectory_file) # <<".", "d", "b">>

\* int(len(trajectory_files) * proportion), proportion = <<num, den>>
MaxIter(files, proportion) == (Len(files) * proportion[1]) \div proportion[2]

\* trajectory_files[: int(len(trajectory_files) * proportion)]
Prefix(files, proportion) == SubSeq(files, 1, MaxIter(files, proportion))

\* the orders np.random.shuffle can leave a list in
Shuffles(files) ==
    {[i \in 1..Len(files) |-> files[p[i]]] : p \in Permutations(1..Len(files))}

-----------------------------------------------------------------------------
(* One database: the category, track and lidar_box tables.                 *)

\* dict(zip(df_category.index, df_category["name"])): token -> name
DictCategory(db) == db.category

\* dict(zip(df_category["name"], df_category.index)): name -> token
DictCategoryByName(db) ==
    [n \in Range(db.category) |->
        CHOOSE t \in DOMAIN db.category : db.category[t] = n]

\* dict(zip(df_track.index, df_track["category_token"]))
DictTrack(db) == db.track

\* dict_category[dict_track[row["track_token"]]] raises KeyError
Unresolved(db, track_token) ==
    \/ track_token \notin DOMAIN DictTrack(db)
    \/ DictTrack(db)[track_token] \notin DOMAIN DictCategory(db)

Resolve(db, track_token) == DictCategory(db)[DictTrack(db)[track_token]]

\* np.sqrt(vx ** 2 + vy ** 2 + vz ** 2)
Speed(row) == Sqrt(row.vx * row.vx + row.vy * row.vy + row.vz * row.vz)

-----------------------------------------------------------------------------
(* plot_speed_distribution: the speed map of the vehicle records.          *)

\* line 229: the test that guards the accumulation
OutOfMap(x, y, matrix_x, matrix_y) ==
    x < 0 /\ x >= matrix_x /\ y < 0 /\ y >= matrix_y

\* numpy accepts an index i on an axis of length n iff -n <= i < n, and a
\* negative index counts from the end of the axis.
NpValid(i, n) == -n <= i /\ i < n

NpIndex(i, n) == IF i < 0 THEN i + n ELSE i

\* line 226 without its filter: every category is accumulated
AnyCategory(category) == TRUE

\* line 226: the category the map is built for
IsTarget(category) == category = "vehicle"

\* lines 232-235: speed_map[y, x, 0] += speed; speed_map[y, x, 1] += 1
Accumulate(speed_map, y, x, speed) ==
    [speed_map EXCEPT ![y][x] = <<@[1] + speed, @[2] + 1>>]

\* lines 225-235, one row of lidar_box
GridRow(speed_map, db, row, x_min, y_min, matrix_x, matrix_y) ==
    IF Unresolved(db, row.track_token)
    THEN [status |-> "KeyError", speed_map |-> speed_map]
    ELSE IF ~IsTarget(Resolve(db, row.track_token))
    THEN [status |-> "ok", speed_map |-> speed_map]
    ELSE LET x == PyInt(row.x - x_min)
             y == PyInt(row.y - y_min)
         IN  IF OutOfMap(x, y, matrix_x, matrix_y)
             THEN [status |-> "ok", speed_map |-> speed_map]
             ELSE IF ~NpValid(y, matrix_y) \/ ~NpValid(x, matrix_x)
             THEN [status |-> "IndexError", speed_map |-> speed_map]
             ELSE [status |-> "ok",
                   speed_map |-> Accumulate(speed_map, NpIndex(y, matrix_y),
                                            NpIndex(x, matrix_x), Speed(row))]

\* line 224: for row in df_lidar_box.iterrows(), from row k on
RECURSIVE GridRows(_, _, _, _, _, _, _)
GridRows(speed_map, db, k, x_min, y_min, matrix_x, matrix_y) ==
    IF k > Len(db.lidar_box)
    THEN [status |-> "ok", speed_map |-> speed_map]
    ELSE LET r == GridRow(speed_map, db, db.lidar_box[k], x_min, y_min,
                          matrix_x, matrix_y)
         IN  IF r.status # "ok" THEN r
             ELSE GridRows(r.speed_map, db, k + 1, x_min, y_min,
                           matrix_x, matrix_y)

\* lines 238-241: whether the loop over the files goes on after a file
GoesOn(proportion, cnt, max_iter) == proportion = None \/ cnt < max_iter

\* lines 212-241: for trajectory_file in trajectory_files, from entry k on.
\* acc = [status, speed_map, cnt, read]; read lists the files opened.
RECURSIVE GridFiles(_, _, _, _, _, _, _, _, _, _)
GridFiles(acc, dbs, files, k, proportion, max_iter, x_min, y_min, matrix_x, matrix_y) ==
    IF k > Len(files) THEN acc
    ELSE IF NotDb(files[k])
    THEN GridFiles(acc, dbs, files, k + 1, proportion, max_iter, x_min, y_min,
                   matrix_x, matrix_y)
    ELSE LET r == GridRows(acc.speed_map, dbs[files[k]], 1, x_min, y_min,
                           matrix_x, matrix_y)
             cnt == IF proportion # None THEN acc.cnt + 1 ELSE acc.cnt
             nxt == [status |-> r.status, speed_map |-> r.speed_map,
                     cnt |-> cnt, read |-> Append(acc.read, files[k])]
         IN  IF r.status # "ok"
             THEN [nxt EXCEPT !.cnt = acc.cnt]
             ELSE IF GoesOn(proportion, cnt, max_iter)
             THEN GridFiles(nxt, dbs, files, k + 1, proportion, max_iter,
                            x_min, y_min, matrix_x, matrix_y)
             ELSE nxt

\* line 243: speed_map[:, :, 0] /= speed_map[:, :, 1]
CellMean(cell) == NpDivide(cell[1], cell[2])

\* line 244: np.flip(speed_map, axis=0)
Flip(grid, matrix_y) ==
    [y \in 0..(matrix_y - 1) |-> grid[matrix_y - 1 - y]]

\* lines 202-246.  shuffled is the order np.random.shuffle leaves the list
\* in; speed_map holds the (sum, count) cells when the loop ends or raises,
\* grid is speed_map[:, :, 0] after line 243 and image what imshow gets.
plot_speed_distribution(map_boundary, dbs, shuffled, proportion) ==
    LET x_min == map_boundary[1]
        x_max == map_boundary[2]
        y_min == map_boundary[3]
        y_max == map_boundary[4]
        matrix_x == PyInt(x_max - x_min)
        matrix_y == PyInt(y_max - y_min)
    IN  IF matrix_x < 0 \/ matrix_y < 0
        THEN [status |-> "ValueError", shuffled |-> FALSE, read |-> <<>>,
              speed_map |-> <<>>, grid |-> <<>>, image |-> <<>>]
        ELSE
        LET zeros == [y \in 0..(matrix_y - 1) |->
                        [x \in 0..(matrix_x - 1) |-> <<0, 0>>]]
            max_iter == IF proportion # None
                        THEN MaxIter(shuffled, proportion) ELSE 0
            acc == GridFiles([status |-> "ok", speed_map |-> zeros,
                              cnt |-> 0, read |-> <<>>],
                             dbs, shuffled, 1, proportion, max_iter,
                             x_min, y_min, matrix_x, matrix_y)
            grid == [y \in 0..(matrix_y - 1) |->
                       [x \in 0..(matrix_x - 1) |->
                           CellMean(acc.speed_map[y][x])]]
        IN  IF acc.status # "ok"
            THEN [status |-> acc.status, shuffled |-> TRUE,
                  read |-> acc.read, speed_map |-> acc.speed_map,
                  grid |-> <<>>, image |-> <<>>]
            ELSE [status |-> "ok", shuffled |-> TRUE, read |-> acc.read,
                  speed_map |-> acc.speed_map,
                  grid |-> grid, image |-> Flip(grid, matrix_y)]

-----------------------------------------------------------------------------
(* plot_trajectories: the scatter table.                                    *)

\* lines 70-74: the shuffle mutates the list; the subset is a new list.
Subset(shuffled, proportion) ==
    IF proportion # None THEN Prefix(shuffled, proportion) ELSE shuffled

\* lines 88-91, from row k on.  acc = [status, rows]
RECURSIVE ScatterRows(_, _, _)
ScatterRows(acc, db, k) ==
    IF k > Len(db.lidar_box) THEN acc
    ELSE LET row == db.lidar_box[k]
         IN  IF Unresolved(db, row.track_token)
             THEN [acc EXCEPT !.status = "KeyError"]
             ELSE ScatterRows(
                      [acc EXCEPT !.rows = Append(@,
                           <<row.x, row.y, Resolve(db, row.track_token)>>)],
                      db, k + 1)

\* lines 76-92, from entry k of the subset on.  acc = [status, rows, read]
RECURSIVE ScatterFiles(_, _, _, _)
ScatterFiles(acc, dbs, subset, k) ==
    IF k > Len(subset) THEN acc
    ELSE IF NotDb(subset[k]) THEN ScatterFiles(acc, dbs, subset, k + 1)
    ELSE LET r == ScatterRows([status |-> "ok", rows |-> acc.rows],
                              dbs[subset[k]], 1)
             nxt == [status |-> r.status, rows |-> r.rows,
                     read |-> Append(acc.read, subset[k])]
         IN  IF r.status # "ok" THEN nxt
             ELSE ScatterFiles(nxt, dbs, subset, k + 1)

\* lines 65-96
plot_trajectories(dbs, shuffled, proportion) ==
    ScatterFiles([status |-> "ok", rows |-> <<>>, read |-> <<>>],
                 dbs, Subset(shuffled, proportion), 1)

-----------------------------------------------------------------------------
(* plot_class_proportion: one row of track counts per folder.              *)

\* line 139: len(df_track[df_track["category_token"] == token])
TracksOf(db, token) ==
    Cardinality({t \in DOMAIN DictTrack(db) : DictTrack(db)[t] = token})

\* line 138: df_proportion.loc[trajectory_folder][category] = n
SetCount(row, category, n) == [row EXCEPT ![category] = <<n, 1>>]

\* lines 137-140, from entry k of dynamic_category on.  acc = [status, row]
RECURSIVE CountCategories(_, _, _)
CountCategories(acc, db, k) ==
    IF k > Len(dynamic_category) THEN acc
    ELSE LET category == dynamic_category[k]
         IN  IF category \notin DOMAIN DictCategoryByName(db)
             THEN [acc EXCEPT !.status = "KeyError"]
             ELSE CountCategories(
                      [acc EXCEPT !.row = SetCount(@, category,
                           TracksOf(db, DictCategoryByName(db)[category]))],
                      db, k + 1)

\* lines 125-142, from entry k of the subset on.  acc = [status, row, read]
RECURSIVE CountFiles(_, _, _, _)
CountFiles(acc, dbs, subset, k) ==
    IF k > Len(subset) THEN acc
    ELSE IF NotDb(subset[k]) THEN CountFiles(acc, dbs, subset, k + 1)
    ELSE LET r == CountCategories([status |-> "ok", row |-> acc.row],
                                  dbs[subset[k]], 1)
             nxt == [status |-> r.status, row |-> r.row,
                     read |-> Append(acc.read, subset[k])]
         IN  IF r.status # "ok" THEN nxt
             ELSE CountFiles(nxt, dbs, subset, k + 1)

\* lines 117-142, from folder i on.  acc = [status, df, read, reached];
\* reached counts the folders whose list line 119 has shuffled.
RECURSIVE CountFolders(_, _, _, _, _)
CountFolders(acc, dsk, shuffled, proportion, i) ==
    IF i > Len(shuffled) THEN acc
    ELSE LET r == CountFiles([status |-> "ok", row |-> acc.df[i],
                              read |-> <<>>],
                             dsk[i], Subset(shuffled[i], proportion), 1)
             nxt == [status |-> r.status,
                     df |-> [acc.df EXCEPT ![i] = r.row],
                     read |-> acc.read \o
                              [j \in 1..Len(r.read) |-> <<i, r.read[j]>>],
                     reached |-> i]
         IN  IF r.status # "ok" THEN nxt
             ELSE CountFolders(nxt, dsk, shuffled, proportion, i + 1)

\* df_proportion.sum(axis=1) for one row: NaN cells are skipped
RECURSIVE RowSum(_, _)
RowSum(row, k) ==
    IF k > Len(dynamic_category) THEN 0
    ELSE LET cell == row[dynamic_category[k]]
         IN  (IF cell = NaN THEN 0 ELSE cell[1]) + RowSum(row, k + 1)

\* The frame holds Python objects (dtype object), so line 147 divides cell
\* by cell with Python's own /, which raises on a zero divisor.
RaisesZeroDivision(df) == \E i \in DOMAIN df : RowSum(df[i], 1) = 0

\* line 147: df_proportion.div(df_proportion.sum(axis=1), axis=0)
Normalise(df) ==
    [i \in DOMAIN df |->
        [c \in DOMAIN df[i] |->
            IF df[i][c] = NaN THEN NaN
            ELSE Frac(df[i][c][1], RowSum(df[i], 1))]]

\* lines 114-147.  counts is df_proportion as line 145 prints it,
\* proportions the frame that is plotted.
plot_class_proportion(dsk, shuffled, proportion) ==
    LET empty == [i \in 1..Len(shuffled) |->
                     [c \in Range(dynamic_category) |-> NaN]]
        acc == CountFolders([status |-> "ok", df |-> empty, read |-> <<>>,
                             reached |-> 0],
                            dsk, shuffled, proportion, 1)
    IN  IF acc.status # "ok"
        THEN [status |-> acc.status, reached |-> acc.reached,
              read |-> acc.read, counts |-> <<>>, proportions |-> <<>>]
        ELSE IF RaisesZeroDivision(acc.df)
        THEN [status |-> "ZeroDivisionError", reached |-> acc.reached,
              read |-> acc.read, counts |-> acc.df, proportions |-> <<>>]
        ELSE [status |-> "ok", reached |-> acc.reached, read |-> acc.read,
              counts |-> acc.df, proportions |-> Normalise(acc.df)]

-----------------------------------------------------------------------------
(* plot_mean_speed_distribution: one row per track of each database.       *)

\* the rows of lidar_box that carry track_token, in order
FramesOf(db, track_token) ==
    SelectSeq(db.lidar_box, LAMBDA row : row.track_token = track_token)

RECURSIVE SumSpeed(_, _)
SumSpeed(rows, k) ==
    IF k > Len(rows) THEN 0 ELSE Speed(rows[k]) + SumSpeed(rows, k + 1)

\* line 174 with .sum() in the place of .mean()
GroupTotal(rows) == Frac(SumSpeed(rows, 1), 1)

\* line 174: df_lidar_box.groupby("track_token")["speed"].mean(), one group
GroupMean(rows) == Frac(SumSpeed(rows, 1), Len(rows))

\* the index of the groupby result: the tokens that occur, ascending
RECURSIVE Ascending(_)
Ascending(S) ==
    IF S = {} THEN <<>>
    ELSE LET m == CHOOSE m \in S : \A n \in S : m <= n
         IN  <<m>> \o Ascending(S \ {m})

GroupKeys(db) ==
    Ascending({db.lidar_box[k].track_token : k \in DOMAIN db.lidar_box})

\* lines 176-179 with a track that does not resolve skipped
RECURSIVE MeanRowsSkipping(_, _, _, _, _)
MeanRowsSkipping(acc, db, keys, trajectory_folder, k) ==
    IF k > Len(keys) THEN acc
    ELSE IF Unresolved(db, keys[k])
    THEN MeanRowsSkipping(acc, db, keys, trajectory_folder, k + 1)
    ELSE MeanRowsSkipping(
             [acc EXCEPT !.speeds = Append(@,
                  <<trajectory_folder, Resolve(db, keys[k]),
                    GroupMean(FramesOf(db, keys[k]))>>)],
             db, keys, trajectory_folder, k + 1)

\* lines 176-179, from entry k of the groupby result on.
\* acc = [status, speeds]
RECURSIVE MeanRows(_, _, _, _, _)
MeanRows(acc, db, keys, trajectory_folder, k) ==
    IF k > Len(keys) THEN acc
    ELSE IF Unresolved(db, keys[k])
    THEN [acc EXCEPT !.status = "KeyError"]
    ELSE MeanRows(
             [acc EXCEPT !.speeds = Append(@,
                  <<trajectory_folder, Resolve(db, keys[k]),
                    GroupMean(FramesOf(db, keys[k]))>>)],
             db, keys, trajectory_folder, k + 1)

\* lines 157-181, from entry k of trajectory_files[i] on.
\* acc = [status, speeds, read]
RECURSIVE MeanFiles(_, _, _, _, _)
MeanFiles(acc, dbs, files, trajectory_folder, k) ==
    IF k > Len(files) THEN acc
    ELSE IF NotDb(files[k])
    THEN MeanFiles(acc, dbs, files, trajectory_folder, k + 1)
    ELSE LET db == dbs[files[k]]
             r == MeanRows([status |-> "ok", speeds |-> acc.speeds], db,
                           GroupKeys(db), trajectory_folder, 1)
             nxt == [status |-> r.status, speeds |-> r.speeds,
                     read |-> Append(acc.read,
                                     <<trajectory_folder, files[k]>>)]
         IN  IF r.status # "ok" THEN nxt
             ELSE MeanFiles(nxt, dbs, files, trajectory_folder, k + 1)

\* lines 156-181, from folder i on
RECURSIVE MeanFolders(_, _, _, _)
MeanFolders(acc, dsk, files, i) ==
    IF i > Len(files) THEN acc
    ELSE LET r == MeanFiles(acc, dsk[i], files[i], i, 1)
         IN  IF r.status # "ok" THEN r
             ELSE MeanFolders(r, dsk, files, i + 1)

\* lines 153-183
plot_mean_speed_distribution(dsk, files) ==
    MeanFolders([status |-> "ok", speeds |-> <<>>, read |-> <<>>],
                dsk, files, 1)

-----------------------------------------------------------------------------
(* The inputs: folders of files on disk and the caller's lists of names.   *)

MaxFiles == 2

MaxTracks == 2

MaxBoxes == 2

DbA == <<"a", ".", "d", "b">>

DbB == <<"b", ".", "d", "b">>

Notes == <<"n", ".", "t", "x", "t">>

FileNames == {DbA, DbB, Notes}

SeqsUpTo(S, n) == UNION {[1..k -> S] : k \in 0..n}

\* a directory listing: names without repetition
Listings(n) ==
    {s \in SeqsUpTo(FileNames, n) :
        \A i, j \in DOMAIN s : i # j => s[i] # s[j]}

\* the category table of a complete database, one without "bicycle" and
\* one without "barrier"
FullCategory == [t \in 1..Len(categories) |-> categories[t]]

NoBicycle == [t \in (1..Len(categories)) \ {2} |-> categories[t]]

NoBarrier == [t \in (1..Len(categories)) \ {5} |-> categories[t]]

TrackTokens == 1..MaxTracks

TrackTables(tokens) ==
    UNION {[D -> tokens] : D \in SUBSET TrackTokens}

Box(t, p, v) ==
    [track_token |-> t, x |-> p[1], y |-> p[2],
     vx |-> v[1], vy |-> v[2], vz |-> v[3]]

\* velocities of speed 5, 3 and 0
Velocities == {<<3, 4, 0>>, <<1, 2, 2>>, <<0, 0, 0>>}

\* positions in half units: (0.5, 0.5), (5, 5), (-1, 1.5) and (-0.5, 0.5)
Points == {<<1, 1>>, <<10, 10>>, <<-2, 3>>, <<-1, 1>>}

\* map boundaries (x_min, x_max, y_min, y_max) in half units: 2 x 2,
\* 10 x 10, 2 x 2 from x_min = -1, height 0.5 (int gives 0) and width -2
Boundaries ==
    {<<0, 4, 0, 4>>, <<0, 20, 0, 20>>, <<-2, 2, 0, 4>>, <<0, 4, 0, 1>>,
     <<4, 0, 0, 4>>}

\* proportion: None, 0.5 or 1
Proportions == {None, <<1, 2>>, <<1, 1>>}

EmptyDb == [category |-> FullCategory, track |-> <<>>, lidar_box |-> <<>>]

Idle ==
    [op |-> "none", folder |-> 0, proportion |-> None, map_boundary |-> <<>>,
     repeat |-> FALSE, kept |-> TRUE, status |-> "ok", read |-> <<>>, rows |-> <<>>,
     counts |-> <<>>, proportions |-> <<>>, speed_map |-> <<>>,
     grid |-> <<>>, image |-> <<>>]

Folders == DOMAIN trajectory_files

-----------------------------------------------------------------------------
(* The calls.                                                               *)

\* last records the latest call: its arguments, whether it repeats the call
\* before it, whether it left the caller's lists as they were, how it ended,
\* the files it opened and the tables it built.
Repeats(op, f, proportion, map_boundary) ==
    /\ last.op = op
    /\ last.folder = f
    /\ last.proportion = proportion
    /\ last.map_boundary = map_boundary

\* np.random.shuffle moved out of "if proportion is not None"
AlwaysShuffles(files, proportion) == Shuffles(files)

\* np.random.shuffle runs only under "if proportion is not None"
ShufflesIf(files, proportion) ==
    IF proportion # None THEN Shuffles(files) ELSE {files}

Trajectories ==
    \E f \in Folders, proportion \in Proportions :
      \E shuffled \in ShufflesIf(trajectory_files[f], proportion) :
        \E r \in {plot_trajectories(disk[f], shuffled, proportion)} :
            /\ last' = [Idle EXCEPT
                          !.op = "plot_trajectories", !.folder = f,
                          !.proportion = proportion,
                          !.repeat = Repeats("plot_trajectories", f,
                                             proportion, <<>>),
                          !.kept = (shuffled = trajectory_files[f]),
                          !.status = r.status,
                          !.read = [j \in 1..Len(r.read) |-> <<f, r.read[j]>>],
                          !.rows = IF r.status = "ok" THEN r.rows ELSE <<>>]
            /\ trajectory_files' = [trajectory_files EXCEPT ![f] = shuffled]
            /\ UNCHANGED disk

\* line 119 shuffles each folder's list in turn
RECURSIVE ShuffleAll(_, _, _)
ShuffleAll(files, proportion, i) ==
    IF i > Len(files) THEN {<<>>}
    ELSE {<<s>> \o rest : s \in ShufflesIf(files[i], proportion),
                          rest \in ShuffleAll(files, proportion, i + 1)}

ClassProportion ==
    \E proportion \in Proportions :
      \E shuffled \in ShuffleAll(trajectory_files, proportion, 1) :
        \E r \in {plot_class_proportion(disk, shuffled, proportion)} :
            /\ last' = [Idle EXCEPT
                          !.op = "plot_class_proportion",
                          !.proportion = proportion,
                          !.repeat = Repeats("plot_class_proportion", 0,
                                             proportion, <<>>),
                          !.kept = \A i \in Folders :
                                      i <= r.reached =>
                                          shuffled[i] = trajectory_files[i],
                          !.status = r.status,
                          !.read = r.read,
                          !.counts = r.counts,
                          !.proportions = r.proportions]
            /\ trajectory_files' =
                   [i \in Folders |->
                       IF i <= r.reached THEN shuffled[i]
                       ELSE trajectory_files[i]]
            /\ UNCHANGED disk

MeanSpeedDistribution ==
    \E r \in {plot_mean_speed_distribution(disk, trajectory_files)} :
        /\ last' = [Idle EXCEPT
                      !.op = "plot_mean_speed_distribution",
                      !.repeat = Repeats("plot_mean_speed_distribution", 0,
                                         None, <<>>),
                      !.status = r.status,
                      !.read = r.read,
                      !.rows = IF r.status = "ok" THEN r.speeds ELSE <<>>]
        /\ UNCHANGED <<disk, trajectory_files>>

SpeedDistribution ==
    \E f \in Folders, map_boundary \in Boundaries, proportion \in Proportions :
      \E shuffled \in Shuffles(trajectory_files[f]) :
        \E r \in {plot_speed_distribution(map_boundary, disk[f], shuffled,
                                         proportion)} :
            /\ last' = [Idle EXCEPT
                          !.op = "plot_speed_distribution", !.folder = f,
                          !.proportion = proportion,
                          !.map_boundary = map_boundary,
                          !.repeat = Repeats("plot_speed_distribution", f,
                                             proportion, map_boundary),
                          !.kept = (r.shuffled =>
                                       shuffled = trajectory_files[f]),
                          !.status = r.status,
                          !.read = [j \in 1..Len(r.read) |-> <<f, r.read[j]>>],
                          !.speed_map = r.speed_map,
                          !.grid = r.grid,
                          !.image = r.image]
            /\ trajectory_files' =
                   IF r.shuffled
                   THEN [trajectory_files EXCEPT ![f] = shuffled]
                   ELSE trajectory_files
            /\ UNCHANGED disk

Next ==
    \/ Trajectories
    \/ ClassProportion
    \/ MeanSpeedDistribution
    \/ SpeedDistribution

-----------------------------------------------------------------------------
(* Initial states: what is on disk and the lists the caller holds.          *)

\* one vehicle track seen in one frame at (0.5, 0.5) with speed 3
SingleDb ==
    [category |-> FullCategory, track |-> (1 :> 1),
     lidar_box |-> <<Box(1, <<1, 1>>, <<1, 2, 2>>)>>]

\* a vehicle and a bicycle, the vehicle seen twice
GoodDb ==
    [category |-> FullCategory, track |-> (1 :> 1) @@ (2 :> 2),
     lidar_box |-> <<Box(1, <<1, 1>>, <<3, 4, 0>>),
                     Box(2, <<3, 1>>, <<1, 2, 2>>),
                     Box(1, <<3, 1>>, <<1, 2, 2>>)>>]

\* a lidar box whose track is not in the track table
OrphanBoxDb ==
    [category |-> FullCategory, track |-> (1 :> 1),
     lidar_box |-> <<Box(1, <<1, 1>>, <<3, 4, 0>>),
                     Box(2, <<3, 1>>, <<3, 4, 0>>)>>]

\* a track whose category token is not in the category table
OrphanTrackDb ==
    [category |-> NoBarrier, track |-> (1 :> 1) @@ (2 :> 5),
     lidar_box |-> <<Box(2, <<1, 1>>, <<3, 4, 0>>)>>]

\* a category table that lacks a name plot_class_proportion asks for
NoBicycleDb ==
    [category |-> NoBicycle, track |-> (1 :> 1),
     lidar_box |-> <<Box(1, <<1, 1>>, <<3, 4, 0>>)>>]

\* tracks of a static category only
StaticDb ==
    [category |-> FullCategory, track |-> (1 :> 5),
     lidar_box |-> <<Box(1, <<1, 1>>, <<0, 0, 0>>)>>]

\* the folders after the first: none, or one with one database
OneFolder == [files |-> <<>>, disk |-> <<>>]

SecondFolders ==
    {OneFolder,
     [files |-> << <<DbA>> >>, disk |-> <<[n \in FileNames |-> SingleDb]>>]}

Dataset(listing, a, b, second) ==
    /\ trajectory_files = <<listing>> \o second.files
    /\ disk = <<[n \in FileNames |->
                   IF n = DbA THEN a ELSE IF n = DbB THEN b ELSE EmptyDb]>>
              \o second.disk
    /\ last = Idle

Init ==
    \E listing \in Listings(MaxFiles), second \in SecondFolders,
       a \in {GoodDb, OrphanBoxDb, OrphanTrackDb, NoBicycleDb, StaticDb},
       b \in {EmptyDb, SingleDb} :
        Dataset(listing, a, b, second)

Spec == Init /\ [][Next]_vars

\* plot_class_proportion on every track table of up to MaxTracks tracks
CountDbs(tables) ==
    {[category |-> c, track |-> t, lidar_box |-> <<>>] :
        c \in tables, t \in TrackTables({1, 2, 5})}

InitCount ==
    \E listing \in Listings(MaxFiles), second \in SecondFolders,
       a \in CountDbs({FullCategory, NoBicycle}),
       b \in CountDbs({FullCategory}) :
        Dataset(listing, a, b, second)

SpecCount == InitCount /\ [][ClassProportion]_vars

\* plot_mean_speed_distribution on every lidar_box table of up to MaxBoxes
\* rows over MaxTracks tracks: track 1 is a vehicle, the others bicycles,
\* and a track without rows is a track with zero frames
MeanDbs ==
    {[category |-> FullCategory,
      track |-> [t \in TrackTokens |-> IF t = 1 THEN 1 ELSE 2],
      lidar_box |-> l] :
        l \in SeqsUpTo({Box(k, <<1, 1>>, v) :
                           k \in TrackTokens, v \in Velocities}, MaxBoxes)}

InitMean ==
    \E listing \in Listings(MaxFiles), second \in SecondFolders,
       a \in MeanDbs, b \in {EmptyDb, SingleDb} :
        Dataset(listing, a, b, second)

SpecMean == InitMean /\ [][MeanSpeedDistribution]_vars

\* plot_speed_distribution on up to MaxBoxes rows spread over two
\* databases; track 1 is a vehicle, every other track a barrier
GridBoxes ==
    {Box(1, p, <<3, 4, 0>>) : p \in Points}
    \cup {Box(1, <<1, 1>>, <<1, 2, 2>>), Box(2, <<1, 1>>, <<3, 4, 0>>)}

GridDb(l) ==
    [category |-> FullCategory,
     track |-> [t \in TrackTokens |-> IF t = 1 THEN 1 ELSE 5],
     lidar_box |-> l]

InitGrid ==
    \E listing \in Listings(MaxFiles),
       la \in SeqsUpTo(GridBoxes, MaxBoxes),
       lb \in SeqsUpTo(GridBoxes, MaxBoxes) :
        /\ Len(la) + Len(lb) <= MaxBoxes
        /\ Dataset(listing, GridDb(la), GridDb(lb), OneFolder)

SpecGrid == InitGrid /\ [][SpeedDistribution]_vars

-----------------------------------------------------------------------------
(* What the properties speak of, stated over the inputs alone.              *)

DbSuffix == <<".", "d", "b">>

\* the databases a folder's list names
DbFilesOf(i) == {n \in Range(trajectory_files[i]) : Last3(n) = DbSuffix}

\* the lidar_box records of a set of databases of folder i: <<file, row>>
RecordsOf(i, names) ==
    UNION {{<<n, k>> : k \in DOMAIN disk[i][n].lidar_box} : n \in names}

RowAt(i, r) == disk[i][r[1]].lidar_box[r[2]]

\* referential integrity of one record
Dangling(i, r) ==
    LET db == disk[i][r[1]]
        t == RowAt(i, r).track_token
    IN  \/ t \notin DOMAIN db.track
        \/ db.track[t] \notin DOMAIN db.category

CategoryAt(i, r) ==
    LET db == disk[i][r[1]]
    IN  db.category[db.track[RowAt(i, r).track_token]]

IsVehicle(i, r) == ~Dangling(i, r) /\ CategoryAt(i, r) = "vehicle"

\* the Euclidean norm of a record's velocity
Magnitude(row) ==
    CHOOSE m \in 0..(row.vx * row.vx + row.vy * row.vy + row.vz * row.vz) :
        m * m = row.vx * row.vx + row.vy * row.vy + row.vz * row.vz

RECURSIVE TotalSpeed(_, _)
TotalSpeed(i, records) ==
    IF records = {} THEN 0
    ELSE LET r == CHOOSE r \in records : TRUE
         IN  Magnitude(RowAt(i, r)) + TotalSpeed(i, records \ {r})

\* width = floor(x_max - x_min), height = floor(y_max - y_min)
Width(b) == Floor(b[2] - b[1])

Height(b) == Floor(b[4] - b[3])

\* (cx, cy) = (floor(x - x_min), floor(y - y_min))
CellOf(i, r, b) ==
    <<Floor(RowAt(i, r).x - b[1]), Floor(RowAt(i, r).y - b[3])>>

InsideMap(i, r, b) ==
    /\ 0 <= CellOf(i, r, b)[1] /\ CellOf(i, r, b)[1] < Width(b)
    /\ 0 <= CellOf(i, r, b)[2] /\ CellOf(i, r, b)[2] < Height(b)

\* the vehicle records among `records` that belong in cell (cx, cy)
VehiclesIn(i, records, b, cx, cy) ==
    {r \in records : IsVehicle(i, r) /\ CellOf(i, r, b) = <<cx, cy>>}

SpeedCall == last.op = "plot_speed_distribution"

\* the files the latest call opened
FilesRead == {last.read[j][2] : j \in DOMAIN last.read}

-----------------------------------------------------------------------------
(* C1: plot_speed_distribution accumulates a vehicle record iff its cell    *)
(* (floor(x - x_min), floor(y - y_min)) lies in [0, width) x [0, height);   *)
(* a record outside either range changes no cell and raises no error, and   *)
(* the grid keeps the shape (height, width).  Stated for a valid boundary   *)
(* and records that all resolve: the call ends normally and every cell      *)
(* holds the sum and the number of the records read that belong in it.      *)
C1_InRangeOnly ==
    (/\ SpeedCall
     /\ Width(last.map_boundary) > 0 /\ Height(last.map_boundary) > 0
     /\ \A r \in RecordsOf(last.folder, FilesRead) : ~Dangling(last.folder, r))
    => /\ last.status = "ok"
       /\ DOMAIN last.speed_map = 0..(Height(last.map_boundary) - 1)
       /\ \A cy \in DOMAIN last.speed_map :
            /\ DOMAIN last.speed_map[cy] = 0..(Width(last.map_boundary) - 1)
            /\ \A cx \in DOMAIN last.speed_map[cy] :
                 LET in == VehiclesIn(last.folder,
                                      RecordsOf(last.folder, FilesRead),
                                      last.map_boundary, cx, cy)
                 IN  last.speed_map[cy][cx] =
                         <<TotalSpeed(last.folder, in), Cardinality(in)>>

(* C4: with a boundary whose width or height is not positive the call       *)
(* fails with the invalid-boundary error before any file is read and        *)
(* before any record is accumulated.                                        *)
C4_InvalidBoundaryFails ==
    (/\ SpeedCall
     /\ (Width(last.map_boundary) <= 0 \/ Height(last.map_boundary) <= 0))
    => /\ last.status = "ValueError"
       /\ last.read = <<>>
       /\ last.speed_map = <<>>

(* C6: when plot_speed_distribution runs without sampling on records that   *)
(* all resolve and whose vehicles all lie inside the map, it ends normally  *)
(* and every cell of the grid (speed_map[:, :, 0] after line 243) that has  *)
(* vehicle records holds their mean speed, every other cell is NaN, so no   *)
(* other category contributes.                                              *)
C6_GridIsMeanSpeed ==
    (/\ SpeedCall
     /\ last.proportion = None
     /\ Width(last.map_boundary) > 0 /\ Height(last.map_boundary) > 0
     /\ \A r \in RecordsOf(last.folder, DbFilesOf(last.folder)) :
            /\ ~Dangling(last.folder, r)
            /\ IsVehicle(last.folder, r)
                   => InsideMap(last.folder, r, last.map_boundary))
    => /\ last.status = "ok"
       /\ \A cy \in 0..(Height(last.map_boundary) - 1),
             cx \in 0..(Width(last.map_boundary) - 1) :
            LET in == VehiclesIn(last.folder,
                                 RecordsOf(last.folder,
                                           DbFilesOf(last.folder)),
                                 last.map_boundary, cx, cy)
                cell == last.grid[cy][cx]
            IN  IF in = {} THEN cell = NaN
                ELSE /\ cell[2] > 0
                     /\ cell[1] * Cardinality(in) =
                            TotalSpeed(last.folder, in) * cell[2]

\* boundary (0, 10, 0, 10), one vehicle record at (5, 5) with velocity
\* (3, 4, 0): grid[5][5] = 5 and every other cell is NaN
C6_Witness ==
    /\ SpeedCall
    /\ last.proportion = None
    /\ last.status = "ok"
    /\ last.map_boundary = <<0, 20, 0, 20>>
    /\ \E r \in RecordsOf(last.folder, DbFilesOf(last.folder)) :
          /\ RecordsOf(last.folder, DbFilesOf(last.folder)) = {r}
          /\ IsVehicle(last.folder, r)
          /\ RowAt(last.folder, r) = Box(RowAt(last.folder, r).track_token,
                                         <<10, 10>>, <<3, 4, 0>>)
    /\ last.grid[5][5] = <<5, 1>>
    /\ \A cy \in 0..9, cx \in 0..9 :
          <<cy, cx>> # <<5, 5>> => last.grid[cy][cx] = NaN

-----------------------------------------------------------------------------
MeanCall == last.op = "plot_mean_speed_distribution"

\* the rows the latest call emitted for folder i
RowsOf(i) == {k \in DOMAIN last.rows : last.rows[k][1] = i}

\* the track ids with at least one frame in folder i's records
TrackIdsOf(i) ==
    {RowAt(i, r).track_token : r \in RecordsOf(i, DbFilesOf(i))}

FramesIn(i, names, t) ==
    {r \in RecordsOf(i, names) : RowAt(i, r).track_token = t}

MeanIn(i, names, t) ==
    Frac(TotalSpeed(i, FramesIn(i, names, t)),
         Cardinality(FramesIn(i, names, t)))

\* the tracks with at least one frame, database by database: <<file, id>>
FileTracksOf(i) ==
    UNION {{<<n, t>> : t \in {RowAt(i, r).track_token :
                                 r \in RecordsOf(i, {n})}} :
              n \in DbFilesOf(i)}

-----------------------------------------------------------------------------
ClassCall == last.op = "plot_class_proportion"

\* the tracks of folder i whose category is `category`, one per track id
TracksOfCategory(i, category) ==
    {t \in UNION {DOMAIN disk[i][n].track : n \in DbFilesOf(i)} :
        \E n \in DbFilesOf(i) :
            /\ t \in DOMAIN disk[i][n].track
            /\ disk[i][n].track[t] \in DOMAIN disk[i][n].category
            /\ disk[i][n].category[disk[i][n].track[t]] = category}

\* no track id occurs in two databases of folder i
TrackIdsApart(i) ==
    \A n, m \in DbFilesOf(i) :
        n # m => DOMAIN disk[i][n].track \cap DOMAIN disk[i][m].track = {}

(* C2: for every non-empty group, several databases included, the counts    *)
(* plot_class_proportion leaves in the group's row are, category by         *)
(* category, the number of distinct tracks of the whole group with that     *)
(* category.  Stated where the whole list is used (no sampling) and the     *)
(* group's databases share no track id, so that "distinct" has one reading. *)
C2_CountsCoverGroup ==
    (/\ ClassCall
     /\ last.proportion = None
     /\ last.status = "ok")
    => \A i \in Folders :
         (DbFilesOf(i) # {} /\ TrackIdsApart(i))
         => \A k \in DOMAIN dynamic_category :
              last.counts[i][dynamic_category[k]] =
                  <<Cardinality(TracksOfCategory(i, dynamic_category[k])), 1>>

-----------------------------------------------------------------------------
\* the databases the latest call opened: <<folder, file>>
Opened == {last.read[j] : j \in DOMAIN last.read}

\* a lidar box whose track is not in the track table, or a track whose
\* category token is not in the category table
BreaksIntegrity(db) ==
    \/ \E k \in DOMAIN db.lidar_box :
          db.lidar_box[k].track_token \notin DOMAIN db.track
    \/ \E t \in DOMAIN db.track : db.track[t] \notin DOMAIN db.category

\* a requested category name the category table does not list
LacksName(db) ==
    \E k \in DOMAIN dynamic_category :
        \A t \in DOMAIN db.category : db.category[t] # dynamic_category[k]

-----------------------------------------------------------------------------
\* countByCategory, meanSpeedPerTrack and buildSpeedGrid
Aggregations ==
    {"plot_class_proportion", "plot_mean_speed_distribution",
     "plot_speed_distribution"}

SameTables ==
    /\ last'.rows = last.rows
    /\ last'.counts = last.counts
    /\ last'.proportions = last.proportions
    /\ last'.grid = last.grid
    /\ last'.image = last.image

-----------------------------------------------------------------------------
(* C8: plot_trajectories, plot_class_proportion and plot_speed_distribution *)
(* leave the caller's trajectory_files, each folder's list included, with   *)
(* the same elements in the same order.  Stated for calls that end         *)
(* normally.                                                                *)
C8_ListsUntouched ==
    (/\ last.op \in {"plot_trajectories", "plot_class_proportion",
                     "plot_speed_distribution"}
     /\ last.status = "ok")
    => last.kept

-----------------------------------------------------------------------------
\* a group without records: its databases hold empty tables
EmptyGroup(i) ==
    \A n \in DbFilesOf(i) :
        disk[i][n].track = <<>> /\ disk[i][n].lidar_box = <<>>

(* C9: on groups without records no aggregation ends in an error:           *)
(* plot_class_proportion leaves every proportion undefined,                 *)
(* plot_mean_speed_distribution emits no row and plot_speed_distribution    *)
(* with a valid boundary gives a grid of NaN.                               *)
C9_EmptyGroupsEndNormally ==
    /\ (ClassCall /\ \A i \in Folders : EmptyGroup(i))
       => /\ last.status = "ok"
          /\ \A i \in DOMAIN last.proportions :
                \A c \in DOMAIN last.proportions[i] :
                    last.proportions[i][c] = NaN
    /\ (MeanCall /\ \A i \in Folders : EmptyGroup(i))
       => (last.status = "ok" /\ last.rows = <<>>)
    /\ (/\ SpeedCall
        /\ EmptyGroup(last.folder)
        /\ Width(last.map_boundary) > 0 /\ Height(last.map_boundary) > 0)
       => /\ last.status = "ok"
          /\ \A cy \in DOMAIN last.grid :
                \A cx \in DOMAIN last.grid[cy] : last.grid[cy][cx] = NaN

-----------------------------------------------------------------------------
(* C10: with a sampling proportion p a call opens at most                   *)
(* int(len(trajectory_files) * p) files of a list, none when that is 0, in  *)
(* plot_speed_distribution as in plot_trajectories and                      *)
(* plot_class_proportion.  Stated for calls that end normally.             *)
C10_AtMostMaxIterFiles ==
    (/\ last.op \in {"plot_trajectories", "plot_class_proportion",
                     "plot_speed_distribution"}
     /\ last.status = "ok"
     /\ last.proportion # None)
    => \A i \in Folders :
         Cardinality({j \in DOMAIN last.read : last.read[j][1] = i})
             <= (Len(trajectory_files[i]) * last.proportion[1])
                    \div last.proportion[2]

====
